---- MODULE Spec2Model ----
(***************************************************************************)
(* A model of nztm.c: the Transverse Mercator projection functions and the *)
(* lazily initialised NZTM projection.                                     *)
(*                                                                         *)
(* Numbers.  A C double is held as an integer: a pure number or an angle   *)
(* x as x * Unit (resolution 1/Unit), a length as whole metres.  With this *)
(* convention one product FMul and one quotient FDiv serve every           *)
(* multiplication and division of the source (the source never multiplies  *)
(* two lengths).  Both round toward zero, so like IEEE arithmetic they are *)
(* symmetric in sign.  A result that is not finite in C (a division by     *)
(* zero, the square root of a negative number, and whatever is computed    *)
(* from them) is the single value NaN.                                     *)
(***************************************************************************)
EXTENDS Integers, Sequences, FiniteSets, TLC

Unit == 10000

NaN == 0 - 999999999

Abs(x) == IF x < 0 THEN 0 - x ELSE x

Sgn(x) == IF x < 0 THEN 0 - 1 ELSE 1

\* x * y / Unit, rounded toward zero, without an intermediate above 2^31
FMulAbs(x, y) ==
    LET xq == x \div Unit
        xr == x % Unit
        yq == y \div Unit
        yr == y % Unit
    IN  xq * yq * Unit + xq * yr + xr * yq + (xr * yr) \div Unit

FMul(x, y) == Sgn(x) * Sgn(y) * FMulAbs(Abs(x), Abs(y))

RECURSIVE LongDiv(_, _, _, _)
\* long division, one decimal digit of the quotient per step
LongDiv(q, r, y, u) ==
    IF u = 1 THEN q
    ELSE LongDiv(q * 10 + (r * 10) \div y, (r * 10) % y, y, u \div 10)

\* x * Unit / y, rounded toward zero; y # 0
FDiv(x, y) ==
    Sgn(x) * Sgn(y) * LongDiv(Abs(x) \div Abs(y), Abs(x) % Abs(y), Abs(y), Unit)

\* n * x and x / n for a whole-number literal n of the source (3.0*e4, .../64.0)
IMul(n, x) == n * x

IDiv(x, n) == Sgn(x) * (Abs(x) \div n)

\* a whole-number literal as a pure number
Lit(n) == n * Unit

(***************************************************************************)
(* <math.h>: sin, cos by their Taylor series after reduction to the first  *)
(* quadrant, sqrt by bisection.                                            *)
(***************************************************************************)
MathPi == (31416 * Unit) \div 10000

\* y - y^3/3! + y^5/5! - y^7/7! + y^9/9!, 0 <= y <= pi/2
SinSeries(y) ==
    LET y2 == FMul(y, y)
        s4 == Unit - IDiv(y2, 72)
        s3 == Unit - IDiv(FMul(y2, s4), 42)
        s2 == Unit - IDiv(FMul(y2, s3), 20)
        s1 == Unit - IDiv(FMul(y2, s2), 6)
    IN  FMul(y, s1)

\* 1 - y^2/2! + y^4/4! - y^6/6! + y^8/8!, 0 <= y <= pi/2
CosSeries(y) ==
    LET y2 == FMul(y, y)
        s4 == Unit - IDiv(y2, 56)
        s3 == Unit - IDiv(FMul(y2, s4), 30)
        s2 == Unit - IDiv(FMul(y2, s3), 12)
    IN  Unit - IDiv(FMul(y2, s2), 2)

sin(x) ==
    LET y == Abs(x) % (2 * MathPi)
        v == IF y <= MathPi \div 2 THEN SinSeries(y)
             ELSE IF y <= MathPi THEN SinSeries(MathPi - y)
             ELSE IF y <= MathPi + MathPi \div 2 THEN 0 - SinSeries(y - MathPi)
             ELSE 0 - SinSeries(2 * MathPi - y)
    IN  Sgn(x) * v

cos(x) ==
    LET y == Abs(x) % (2 * MathPi)
        z == IF y > MathPi THEN 2 * MathPi - y ELSE y
    IN  IF z <= MathPi \div 2 THEN CosSeries(z) ELSE 0 - CosSeries(MathPi - z)

RECURSIVE Bisect(_, _, _)
\* the largest r in lo..hi with r * r <= v
Bisect(v, lo, hi) ==
    IF lo >= hi THEN lo
    ELSE LET mid == (lo + hi + 1) \div 2
         IN  IF mid * mid <= v THEN Bisect(v, mid, hi) ELSE Bisect(v, lo, mid - 1)

\* sqrt of a pure number 0 <= x <= 4
sqrt(x) == Bisect(x * Unit, 0, 2 * Unit)

(***************************************************************************)
(* The constants of nztm.c and of nztm.h (NZTM2000 on GRS80).              *)
(***************************************************************************)
PI == 31416

TWOPI == FMul(Lit(2), PI)

rad2deg == FDiv(Lit(180), PI)

NZTM_A == 6378137

NZTM_RF == 2982572

NZTM_CM == 1730000

NZTM_OLAT == 0

NZTM_SF == 9996

NZTM_FE == 1600000

NZTM_FN == 10000000

\* the names of the fields of tmprojection, in the order of the typedef
Fields ==
    {"meridian", "scalef", "orglat", "falsee", "falsen", "utom",
     "a", "rf", "f", "e2", "ep2", "om"}

\* static storage: every field of nztm_projection starts as 0.0
ZeroProjection == [k \in Fields |-> 0]

\* the arguments get_nztm_projection passes to define_tmprojection
NZTMArgs ==
    [a |-> NZTM_A, rf |-> NZTM_RF, cm |-> FDiv(NZTM_CM, rad2deg), sf |-> NZTM_SF,
     lto |-> FDiv(NZTM_OLAT, rad2deg), fe |-> NZTM_FE, fn |-> NZTM_FN,
     utom |-> Lit(1)]

meridian_arc(tm, lt) ==
    LET e2 == tm.e2
        a  == tm.a
        e4 == FMul(e2, e2)
        e6 == FMul(e4, e2)
        A0 == Unit - IDiv(e2, 4) - IDiv(IMul(3, e4), 64) - IDiv(IMul(5, e6), 256)
        A2 == FMul(FDiv(Lit(3), Lit(8)), e2 + IDiv(e4, 4) + IDiv(IMul(15, e6), 128))
        A4 == FMul(FDiv(Lit(15), Lit(256)), e4 + IDiv(IMul(3, e6), 4))
        A6 == IDiv(IMul(35, e6), 3072)
    IN  FMul(a, FMul(A0, lt) - FMul(A2, sin(2 * lt)) + FMul(A4, sin(4 * lt))
                 - FMul(A6, sin(6 * lt)))

\* the local f of define_tmprojection
flattening(rf) == IF rf # 0 THEN FDiv(Lit(1), rf) ELSE 0

\* the number of assignments to *tm in define_tmprojection
NumStores == 12

\* the assignments of the arguments: tm->meridian = cm; ... tm->f = f;
define_params(tm, k, p) ==
    CASE k = 1 -> [tm EXCEPT !.meridian = p.cm]
      [] k = 2 -> [tm EXCEPT !.scalef = p.sf]
      [] k = 3 -> [tm EXCEPT !.orglat = p.lto]
      [] k = 4 -> [tm EXCEPT !.falsee = p.fe]
      [] k = 5 -> [tm EXCEPT !.falsen = p.fn]
      [] k = 6 -> [tm EXCEPT !.utom = p.utom]
      [] k = 7 -> [tm EXCEPT !.a = p.a]
      [] k = 8 -> [tm EXCEPT !.rf = p.rf]
      [] k = 9 -> [tm EXCEPT !.f = flattening(p.rf)]

\* define_derived with tm->ep2 assigned before tm->e2
define_derived_reordered(tm, k, p) ==
    CASE k = 10 -> [tm EXCEPT !.ep2 = IF tm.e2 = Unit THEN NaN
                                      ELSE FDiv(tm.e2, Unit - tm.e2)]
      [] k = 11 -> [tm EXCEPT !.e2 = IMul(2, flattening(p.rf))
                                     - FMul(flattening(p.rf), flattening(p.rf))]
      [] k = 12 -> [tm EXCEPT !.om = meridian_arc(tm, tm.orglat)]

\* define_derived with the arc taken at the equator, not at the origin latitude
define_derived_equator(tm, k, p) ==
    CASE k = 10 -> [tm EXCEPT !.e2 = IMul(2, flattening(p.rf))
                                     - FMul(flattening(p.rf), flattening(p.rf))]
      [] k = 11 -> [tm EXCEPT !.ep2 = IF tm.e2 = Unit THEN NaN
                                      ELSE FDiv(tm.e2, Unit - tm.e2)]
      [] k = 12 -> [tm EXCEPT !.om = meridian_arc(tm, 0)]

\* the assignments of the derived fields: tm->e2, tm->ep2, tm->om
define_derived(tm, k, p) ==
    CASE k = 10 -> [tm EXCEPT !.e2 = IMul(2, flattening(p.rf))
                                     - FMul(flattening(p.rf), flattening(p.rf))]
      [] k = 11 -> [tm EXCEPT !.ep2 = IF tm.e2 = Unit THEN NaN
                                      ELSE FDiv(tm.e2, Unit - tm.e2)]
      [] k = 12 -> [tm EXCEPT !.om = meridian_arc(tm, tm.orglat)]

\* the assignments of the arguments in define_tmprojection
NumParamStores == 9

\* the k-th assignment to *tm of define_tmprojection, applied to tm
define_step(tm, k, p) ==
    IF k <= NumParamStores THEN define_params(tm, k, p) ELSE define_derived(tm, k, p)

RECURSIVE define_from(_, _, _)
define_from(tm, k, p) ==
    IF k > NumStores THEN tm ELSE define_from(define_step(tm, k, p), k + 1, p)

define_tmprojection(tm, p) == define_from(tm, 1, p)

\* foot_point_lat from "sig = m/g" on; n, n2, n3, n4 and g as computed before
foot_point_series(m, n, n2, n3, n4, g) ==
    IF g = 0 THEN NaN
    ELSE FDiv(m, g)
         + FMul(IDiv(IMul(3, n), 2) - IDiv(IMul(27, n3), 32), sin(2 * FDiv(m, g)))
         + FMul(IDiv(IMul(21, n2), 16) - IDiv(IMul(55, n4), 32), sin(4 * FDiv(m, g)))
         + FMul(IDiv(IMul(151, n3), 96), sin(6 * FDiv(m, g)))
         + FMul(IDiv(IMul(1097, n4), 512), sin(8 * FDiv(m, g)))

\* foot_point_lat from "n2 = n*n" on
foot_point_n(a, m, n, n2) ==
    foot_point_series(m, n, n2, FMul(n2, n), FMul(n2, n2),
        FMul(FMul(FMul(a, Unit - n), Unit - n2),
             Unit + IDiv(IMul(9, n2), 4) + IDiv(IMul(225, FMul(n2, n2)), 64)))

foot_point_lat(tm, m) ==
    IF m = NaN \/ tm.f = Lit(2) THEN NaN
    ELSE foot_point_n(tm.a, m, FDiv(tm.f, Lit(2) - tm.f),
                      FMul(FDiv(tm.f, Lit(2) - tm.f), FDiv(tm.f, Lit(2) - tm.f)))

\* rho and psi of tm_geod and geod_tm from eslt and eta
CurvatureRho(e2, eslt, eta) ==
    IF FMul(eta, Unit - e2) = 0
    THEN [eta |-> eta, rho |-> 0, psi |-> NaN]
    ELSE [eta |-> eta, rho |-> FDiv(FMul(eta, Unit - e2), eslt),
          psi |-> FDiv(eta, FDiv(FMul(eta, Unit - e2), eslt))]

\* eta of tm_geod and geod_tm from eslt
CurvatureEta(tm, eslt) ==
    IF eslt <= 0 THEN [eta |-> NaN, rho |-> NaN, psi |-> NaN]
    ELSE CurvatureRho(tm.e2, eslt, FDiv(tm.a, sqrt(eslt)))

\* the curvature terms eslt, eta, rho, psi of tm_geod and geod_tm, from
\* slt = sin(latitude); NaN for a value that is not finite in C
Curvature(tm, slt) == CurvatureEta(tm, Unit - FMul(FMul(tm.e2, slt), slt))

\* tm_geod: the two series, *lt and *ln
tm_geod_series(tm, fphi, clt, rho, psi, E, x, x2, t, t2, t4) ==
    LET sf   == tm.scalef
        cm   == tm.meridian
        lt1  == FDiv(Lit(1), Lit(2))
        lt2  == IDiv(FMul(IMul(0 - 4, psi) + IMul(9, Unit - t2), psi) + IMul(12, t2), 24)
        lt3  == IDiv(FMul(FMul(FMul(FMul(IMul(8, Lit(11) - IMul(24, t2)), psi)
                                         - IMul(12, Lit(21) - IMul(71, t2)), psi)
                                    + IMul(15, FMul(IMul(15, t2) - Lit(98), t2) + Lit(15)), psi)
                               + IMul(180, FMul(IMul(0 - 3, t2) + Lit(5), t2)), psi)
                          + IMul(360, t4), 720)
        lt4  == IDiv(FMul(FMul(IMul(1575, t2) + Lit(4095), t2) + Lit(3633), t2)
                          + Lit(1385), 40320)
        ln1  == Lit(1)
        ln2  == IDiv(psi + IMul(2, t2), 6)
        ln3  == IDiv(FMul(FMul(FMul(IMul(0 - 4, Unit - IMul(6, t2)), psi)
                                    + (Lit(9) - IMul(68, t2)), psi)
                               + IMul(72, t2), psi)
                          + IMul(24, t4), 120)
        ln4  == IDiv(FMul(FMul(IMul(720, t2) + Lit(1320), t2) + Lit(662), t2)
                          + Lit(61), 5040)
    IN  [lt |-> fphi + FMul(FDiv(FMul(FMul(t, x), E), FMul(sf, rho)),
                            FMul(FMul(FMul(lt4, x2) - lt3, x2) + lt2, x2) - lt1),
         ln |-> cm - FMul(FDiv(x, clt),
                          FMul(FMul(FMul(ln4, x2) - ln3, x2) + ln2, x2) - ln1)]

\* tm_geod: x2, t2, t4
tm_geod_powers(tm, fphi, clt, rho, psi, E, x, t, t2) ==
    tm_geod_series(tm, fphi, clt, rho, psi, E, x, FMul(x, x), t, t2, FMul(t2, t2))

\* tm_geod: E, x, t, from the curvature terms
tm_geod_x(tm, ce, fphi, slt, clt, cv) ==
    IF cv.psi = NaN \/ FMul(cv.eta, tm.scalef) = 0 \/ FMul(tm.scalef, cv.rho) = 0
    THEN [ln |-> NaN, lt |-> NaN]
    ELSE tm_geod_powers(tm, fphi, clt, cv.rho, cv.psi, FMul(ce - tm.falsee, tm.utom),
             FDiv(FMul(ce - tm.falsee, tm.utom), FMul(cv.eta, tm.scalef)),
             FDiv(slt, clt), FMul(FDiv(slt, clt), FDiv(slt, clt)))

\* tm_geod: slt, clt and the curvature terms, from the foot point latitude
tm_geod_foot(tm, ce, fphi, slt, clt) ==
    IF fphi = NaN \/ clt = 0 THEN [ln |-> NaN, lt |-> NaN]
    ELSE tm_geod_x(tm, ce, fphi, slt, clt, Curvature(tm, slt))

\* tm_geod: cn1 = (cn - fn)*utom/sf + om
tm_geod_cn1(tm, cn) ==
    IF tm.scalef = 0 THEN NaN
    ELSE FDiv(FMul(cn - tm.falsen, tm.utom), tm.scalef) + tm.om

\* tm_geod: fphi = foot_point_lat(tm, cn1), slt, clt
tm_geod_fphi(tm, ce, fphi) == tm_geod_foot(tm, ce, fphi, sin(fphi), cos(fphi))

\* tm_geod( tm, ce, cn, &ln, &lt ): the outputs as a record
tm_geod(tm, ce, cn) == tm_geod_fphi(tm, ce, foot_point_lat(tm, tm_geod_cn1(tm, cn)))

\* one test and body of "while ( dlon > PI ) dlon -= TWOPI;"
LoopDownCond(dlon) == dlon > PI

LoopDownBody(dlon) == dlon - TWOPI

\* one test and body of "while ( dlon < -PI ) dlon += TWOPI;"
LoopUpCond(dlon) == dlon < 0 - PI

LoopUpBody(dlon) == dlon + TWOPI

RECURSIVE LoopDown(_)
LoopDown(dlon) == IF LoopDownCond(dlon) THEN LoopDown(LoopDownBody(dlon)) ELSE dlon

RECURSIVE LoopUp(_)
LoopUp(dlon) == IF LoopUpCond(dlon) THEN LoopUp(LoopUpBody(dlon)) ELSE dlon

\* geod_tm: the two series, *ce and *cn
geod_tm_terms(tm, dlon, m, clt, eta, psi, wc2, t, t2, t4, t6) ==
    LET fn   == tm.falsen
        fe   == tm.falsee
        sf   == tm.scalef
        om   == tm.om
        utom == tm.utom
        ce1  == IDiv(psi - t2, 6)
        ce2  == IDiv(FMul(FMul(FMul(IMul(4, Unit - IMul(6, t2)), psi)
                                    + (Unit + IMul(8, t2)), psi)
                               - IMul(2, t2), psi) + t4, 120)
        ce3  == IDiv(Lit(61) - IMul(479, t2) + IMul(179, t4) - t6, 5040)
        gce  == FMul(FMul(FMul(FMul(sf, eta), dlon), clt),
                     FMul(FMul(FMul(ce3, wc2) + ce2, wc2) + ce1, wc2) + Lit(1))
        cn1  == FDiv(Lit(1), Lit(2))
        cn2  == IDiv(FMul(IMul(4, psi) + Lit(1), psi) - t2, 24)
        cn3  == IDiv(FMul(FMul(FMul(FMul(IMul(8, Lit(11) - IMul(24, t2)), psi)
                                         - IMul(28, Unit - IMul(6, t2)), psi)
                                    + (Unit - IMul(32, t2)), psi)
                               - IMul(2, t2), psi)
                          + t4, 720)
        cn4  == IDiv(Lit(1385) - IMul(3111, t2) + IMul(543, t4) - t6, 40320)
        gcn  == FMul(FMul(eta, t),
                     FMul(FMul(FMul(FMul(cn4, wc2) + cn3, wc2) + cn2, wc2) + cn1, wc2))
    IN  [ce |-> FDiv(gce, utom) + fe,
         cn |-> FDiv(FMul(gcn + m - om, sf), utom) + fn]

\* geod_tm: t4, t6
geod_tm_powers(tm, dlon, m, clt, eta, psi, wc2, t, t2, t4) ==
    geod_tm_terms(tm, dlon, m, clt, eta, psi, wc2, t, t2, t4, FMul(t2, t4))

\* geod_tm: wc2, t2, from wc = clt*w and t = slt/clt
geod_tm_w(tm, dlon, m, clt, cv, wc, t) ==
    IF cv.psi = NaN \/ tm.utom = 0 THEN [ce |-> NaN, cn |-> NaN]
    ELSE geod_tm_powers(tm, dlon, m, clt, cv.eta, cv.psi, FMul(wc, wc), t, FMul(t, t),
                        FMul(FMul(t, t), FMul(t, t)))

\* geod_tm: the curvature terms, wc and t, from m, slt and clt
geod_tm_trig(tm, dlon, m, slt, clt) ==
    IF clt = 0 THEN [ce |-> NaN, cn |-> NaN]
    ELSE geod_tm_w(tm, dlon, m, clt, Curvature(tm, slt), FMul(clt, dlon), FDiv(slt, clt))

\* geod_tm from "m = meridian_arc(tm,lt)" on, for the dlon the loops leave
geod_tm_series(tm, dlon, lt) ==
    geod_tm_trig(tm, dlon, meridian_arc(tm, lt), sin(lt), cos(lt))

\* geod_tm( tm, ln, lt, &ce, &cn ): the outputs as a record
geod_tm(tm, ln, lt) ==
    geod_tm_series(tm, LoopUp(LoopDown(ln - tm.meridian)), lt)

(***************************************************************************)
(* The program as a state machine.  Each thread calls nztm_geod and        *)
(* geod_nztm; a call is a sequence of steps, one per access to the shared  *)
(* statics nztm_projection and initiallized, so that calls of different    *)
(* threads interleave between any two accesses.                            *)
(***************************************************************************)
\* calls a thread makes
MaxCalls == 2

\* the threads of the process
Threads == {1, 2}

VARIABLES
    nztm_projection,  \* the static tmprojection
    initiallized,     \* the static flag
    pc,               \* pc[t]: where thread t is in its call
    op,               \* op[t]: the function thread t is in
    k,                \* k[t]: the next store of define_tmprojection, or the next read
    c,                \* c[t]: the caller's variables n, e, lt, ln
    view,             \* view[t]: the fields of *tm thread t has read in this call
    dlon,             \* dlon[t]: the local dlon of geod_tm
    iters,            \* iters[t]: loop bodies executed by the call's geod_tm
    ncalls,           \* ncalls[t]: calls thread t has completed
    defines,          \* how many times define_tmprojection has been entered
    definer,          \* definer[t]: the call of t (by number) that entered it, or 0
    tm,               \* a projection built by define_tmprojection (TM core alone)
    res               \* the last application of geod_tm or tm_geod to tm

vars ==
    <<nztm_projection, initiallized, pc, op, k, c, view, dlon, iters, ncalls,
      defines, definer, tm, res>>

coreVars == <<tm, res>>

nztmVars ==
    <<nztm_projection, initiallized, pc, op, k, c, view, dlon, iters, ncalls,
      defines, definer>>

\* the fields of *tm a call reads, in the order of the source: the locals of
\* tm_geod then those of foot_point_lat; the locals of geod_tm then (after the
\* two loops) those of meridian_arc
ReadOrder(o) ==
    IF o = "nztm_geod"
    THEN <<"falsen", "falsee", "scalef", "e2", "a", "meridian", "om", "utom",
           "f", "a">>
    ELSE <<"falsen", "falsee", "scalef", "e2", "a", "meridian", "om", "utom",
           "e2", "a">>

\* the reads geod_tm makes before its loops
ReadsBeforeLoops == 8

NoVars == [n |-> 0, e |-> 0, lt |-> 0, ln |-> 0]

NoRes == [fn |-> "none", lt |-> 0, ln |-> 0, ce |-> 0, cn |-> 0, dlon |-> 0]

InitNZTM ==
    /\ nztm_projection = ZeroProjection
    /\ initiallized = 0
    /\ pc = [t \in Threads |-> "idle"]
    /\ op = [t \in Threads |-> "none"]
    /\ k = [t \in Threads |-> 0]
    /\ c = [t \in Threads |-> NoVars]
    /\ view = [t \in Threads |-> ZeroProjection]
    /\ dlon = [t \in Threads |-> 0]
    /\ iters = [t \in Threads |-> 0]
    /\ ncalls = [t \in Threads |-> 0]
    /\ defines = 0
    /\ definer = [t \in Threads |-> 0]

\* the caller: nztm_geod( n, e, &lt, &ln ) or geod_nztm( lt, ln, &n, &e )
Call(t, o, in) ==
    /\ pc[t] = "idle"
    /\ ncalls[t] < MaxCalls
    /\ pc' = [pc EXCEPT ![t] = "check"]
    /\ op' = [op EXCEPT ![t] = o]
    /\ c' = [c EXCEPT ![t] = in]
    /\ view' = [view EXCEPT ![t] = ZeroProjection]
    /\ dlon' = [dlon EXCEPT ![t] = 0]
    /\ iters' = [iters EXCEPT ![t] = 0]
    /\ UNCHANGED <<nztm_projection, initiallized, k, ncalls, defines, definer, coreVars>>

\* get_nztm_projection: if( ! initiallized )
CheckFlag(t) ==
    /\ pc[t] = "check"
    /\ IF initiallized = 0
       THEN /\ pc' = [pc EXCEPT ![t] = "define"]
            /\ defines' = defines + 1
            /\ definer' = [definer EXCEPT ![t] = ncalls[t] + 1]
       ELSE /\ pc' = [pc EXCEPT ![t] = "read"]
            /\ UNCHANGED <<defines, definer>>
    /\ k' = [k EXCEPT ![t] = 1]
    /\ UNCHANGED <<nztm_projection, initiallized, op, c, view, dlon, iters, ncalls, coreVars>>

\* define_tmprojection( &nztm_projection, ... ): its next assignment
DefineStore(t) ==
    /\ pc[t] = "define"
    /\ nztm_projection' = define_step(nztm_projection, k[t], NZTMArgs)
    /\ IF k[t] < NumStores
       THEN /\ k' = [k EXCEPT ![t] = k[t] + 1]
            /\ pc' = pc
       ELSE /\ k' = [k EXCEPT ![t] = 0]
            /\ pc' = [pc EXCEPT ![t] = "setflag"]
    /\ UNCHANGED <<initiallized, op, c, view, dlon, iters, ncalls, defines, definer, coreVars>>

\* SetFlag without the assignment to the flag
SetFlagForgotten(t) ==
    /\ pc[t] = "setflag"
    /\ pc' = [pc EXCEPT ![t] = "read"]
    /\ k' = [k EXCEPT ![t] = 1]
    /\ UNCHANGED <<nztm_projection, initiallized, op, c, view, dlon, iters, ncalls,
                   defines, definer, coreVars>>

\* get_nztm_projection: initiallized = 1
SetFlag(t) ==
    /\ pc[t] = "setflag"
    /\ initiallized' = 1
    /\ pc' = [pc EXCEPT ![t] = "read"]
    /\ k' = [k EXCEPT ![t] = 1]
    /\ UNCHANGED <<nztm_projection, op, c, view, dlon, iters, ncalls, defines, definer, coreVars>>

\* The stores to nztm_projection and the store to initiallized are plain
\* stores to different objects with no synchronisation between them: when
\* another thread runs, the compiler and the processor are free to make the
\* store to the flag visible before the stores to the fields.
SetFlagEarly(t) ==
    /\ pc[t] = "define"
    /\ initiallized = 0
    /\ initiallized' = 1
    /\ UNCHANGED <<nztm_projection, pc, op, k, c, view, dlon, iters, ncalls, defines,
                   definer, coreVars>>

\* tm_geod, foot_point_lat, geod_tm, meridian_arc: the next read of a field of *tm
ReadField(t) ==
    /\ pc[t] = "read"
    /\ LET fld == ReadOrder(op[t])[k[t]]
       IN  view' = [view EXCEPT ![t][fld] = nztm_projection[fld]]
    /\ IF op[t] = "geod_nztm" /\ k[t] = ReadsBeforeLoops
       THEN /\ pc' = [pc EXCEPT ![t] = "loopdown"]
            /\ dlon' = [dlon EXCEPT ![t] = c[t].ln - view'[t].meridian]
            /\ k' = [k EXCEPT ![t] = k[t] + 1]
       ELSE IF k[t] = Len(ReadOrder(op[t]))
       THEN /\ pc' = [pc EXCEPT ![t] = "compute"]
            /\ k' = [k EXCEPT ![t] = 0]
            /\ dlon' = dlon
       ELSE /\ pc' = pc
            /\ k' = [k EXCEPT ![t] = k[t] + 1]
            /\ dlon' = dlon
    /\ UNCHANGED <<nztm_projection, initiallized, op, c, iters, ncalls, defines, definer,
                   coreVars>>

\* geod_tm: while ( dlon > PI ) dlon -= TWOPI;
LoopDownStep(t) ==
    /\ pc[t] = "loopdown"
    /\ IF LoopDownCond(dlon[t])
       THEN /\ dlon' = [dlon EXCEPT ![t] = LoopDownBody(dlon[t])]
            /\ iters' = [iters EXCEPT ![t] = iters[t] + 1]
            /\ pc' = pc
       ELSE /\ pc' = [pc EXCEPT ![t] = "loopup"]
            /\ UNCHANGED <<dlon, iters>>
    /\ UNCHANGED <<nztm_projection, initiallized, op, k, c, view, ncalls, defines, definer,
                   coreVars>>

\* geod_tm: while ( dlon < -PI ) dlon += TWOPI;
LoopUpStep(t) ==
    /\ pc[t] = "loopup"
    /\ IF LoopUpCond(dlon[t])
       THEN /\ dlon' = [dlon EXCEPT ![t] = LoopUpBody(dlon[t])]
            /\ iters' = [iters EXCEPT ![t] = iters[t] + 1]
            /\ pc' = pc
       ELSE /\ pc' = [pc EXCEPT ![t] = "read"]
            /\ UNCHANGED <<dlon, iters>>
    /\ UNCHANGED <<nztm_projection, initiallized, op, k, c, view, ncalls, defines, definer,
                   coreVars>>

\* nztm_geod with the output pointers in the order of its own parameters:
\* tm_geod( nztm, e, n, lt, ln )
nztm_geod_swapped(tmv, cv) ==
    LET r == tm_geod(tmv, cv.e, cv.n)
    IN  [cv EXCEPT !.lt = r.ln, !.ln = r.lt]

\* nztm_geod: tm_geod( nztm, e, n, ln, lt ), from the fields read
nztm_geod(tmv, cv) ==
    LET r == tm_geod(tmv, cv.e, cv.n)
    IN  [cv EXCEPT !.lt = r.lt, !.ln = r.ln]

\* geod_nztm: geod_tm( nztm, ln, lt, e, n ), from the fields read and the
\* dlon the loops left
geod_nztm(tmv, dl, cv) ==
    LET r == geod_tm_series(tmv, dl, cv.lt)
    IN  [cv EXCEPT !.e = r.ce, !.n = r.cn]

\* Finish of a geod_tm that keeps its arc in tm->om
FinishStoresArc(t) ==
    /\ pc[t] = "compute"
    /\ c' = [c EXCEPT ![t] = IF op[t] = "nztm_geod" THEN nztm_geod(view[t], c[t])
                             ELSE geod_nztm(view[t], dlon[t], c[t])]
    /\ nztm_projection' =
          IF op[t] = "geod_nztm"
          THEN [nztm_projection EXCEPT !.om = meridian_arc(view[t], c[t].lt)]
          ELSE nztm_projection
    /\ pc' = [pc EXCEPT ![t] = "idle"]
    /\ ncalls' = [ncalls EXCEPT ![t] = ncalls[t] + 1]
    /\ UNCHANGED <<initiallized, op, k, view, dlon, iters, defines, definer, coreVars>>

\* the arithmetic of the call and its return: the outputs are stored
Finish(t) ==
    /\ pc[t] = "compute"
    /\ c' = [c EXCEPT ![t] = IF op[t] = "nztm_geod" THEN nztm_geod(view[t], c[t])
                             ELSE geod_nztm(view[t], dlon[t], c[t])]
    /\ pc' = [pc EXCEPT ![t] = "idle"]
    /\ ncalls' = [ncalls EXCEPT ![t] = ncalls[t] + 1]
    /\ UNCHANGED <<nztm_projection, initiallized, op, k, view, dlon, iters, defines,
                   definer, coreVars>>

(***************************************************************************)
(* The TM core alone: geod_tm and tm_geod applied to a projection that     *)
(* define_tmprojection built from any valid arguments.                     *)
(***************************************************************************)
\* arguments of define_tmprojection: GRS80 or a sphere, two central meridians,
\* three origin latitudes, metres or feet
Projections ==
    [a : {NZTM_A}, rf : {NZTM_RF, 0}, cm : {FDiv(NZTM_CM, rad2deg), 0 - Lit(2)},
     sf : {NZTM_SF, Lit(1)}, lto : {0, 0 - 7000, 6000},
     fe : {NZTM_FE}, fn : {NZTM_FN, 0}, utom : {Lit(1), 3048}]

\* longitudes, as offsets from the central meridian
LonOffsets ==
    {0, 500, 0 - 500, PI, 0 - PI, PI + 1, 0 - PI - 1, TWOPI, 0 - TWOPI,
     TWOPI + 500, PI + TWOPI, 0 - PI - TWOPI}

\* latitudes, besides the origin latitude
Latitudes == {0, 0 - 7610, 5000}

\* grid coordinates, as offsets from the false origin
GridOffsets ==
    {[e |-> 0 - 23958, n |-> 0 - 1000000], [e |-> 0, n |-> 0],
     [e |-> 150000, n |-> 800000], [e |-> 0 - 1000000, n |-> 0 - 23958]}

InitTM ==
    /\ InitNZTM
    /\ tm \in {define_tmprojection(ZeroProjection, p) : p \in Projections}
    /\ res = NoRes

\* geod_tm( &tm, ln, lt, &ce, &cn )
Forward(lt, ln) ==
    /\ res.fn = "none"
    /\ LET r == geod_tm(tm, ln, lt)
       IN  res' = [fn |-> "geod_tm", lt |-> lt, ln |-> ln, ce |-> r.ce, cn |-> r.cn,
                   dlon |-> LoopUp(LoopDown(ln - tm.meridian))]
    /\ UNCHANGED <<tm, nztmVars>>

\* tm_geod( &tm, ce, cn, &ln, &lt )
Inverse(ce, cn) ==
    /\ res.fn = "none"
    /\ LET r == tm_geod(tm, ce, cn)
       IN  res' = [fn |-> "tm_geod", lt |-> r.lt, ln |-> r.ln, ce |-> ce, cn |-> cn,
                   dlon |-> 0]
    /\ UNCHANGED <<tm, nztmVars>>

NextTM ==
    \/ \E lt \in Latitudes \cup {tm.orglat}, d \in LonOffsets :
          Forward(lt, tm.meridian + d)
    \/ \E g \in GridOffsets : Inverse(tm.falsee + g.e, tm.falsen + g.n)

SpecTM == InitTM /\ [][NextTM]_vars

(***************************************************************************)
(* The NZTM functions.                                                     *)
(***************************************************************************)
\* the arguments of the calls: geod_nztm( lt, ln, ... ) and nztm_geod( n, e, ... )
GeodArgs ==
    {[NoVars EXCEPT !.lt = lt, !.ln = NZTMArgs.cm + d] :
        lt \in {0, 0 - 7610}, d \in {0, 500, PI, 0 - PI, PI + TWOPI, 0 - TWOPI - 500}}

GridArgs ==
    {[NoVars EXCEPT !.n = 5198706, !.e = 1576042],
     [NoVars EXCEPT !.n = 5900000, !.e = 1750000],
     [NoVars EXCEPT !.n = NZTM_FN, !.e = NZTM_FE]}

Init ==
    /\ InitNZTM
    /\ tm = ZeroProjection
    /\ res = NoRes

Step(t) ==
    \/ CheckFlag(t)
    \/ DefineStore(t)
    \/ SetFlag(t)
    \/ ReadField(t)
    \/ LoopDownStep(t)
    \/ LoopUpStep(t)
    \/ Finish(t)

\* calls that do not overlap: one thread, in program order
NextSeq ==
    \/ \E in \in GeodArgs : Call(1, "geod_nztm", in)
    \/ \E in \in GridArgs : Call(1, "nztm_geod", in)
    \/ Step(1)

SpecSeq == Init /\ [][NextSeq]_vars

\* the arguments of the concurrent calls
RaceGeodArgs == {[NoVars EXCEPT !.lt = 0 - 7610, !.ln = NZTMArgs.cm + 500]}

RaceGridArgs == {[NoVars EXCEPT !.n = 5198706, !.e = 1576042]}

\* calls of several threads, unsynchronised
Next ==
    \E t \in Threads :
        \/ \E in \in RaceGeodArgs : Call(t, "geod_nztm", in)
        \/ \E in \in RaceGridArgs : Call(t, "nztm_geod", in)
        \/ Step(t)
        \/ SetFlagEarly(t)

Spec == Init /\ [][Next]_vars

(***************************************************************************)
(* The properties.                                                         *)
(***************************************************************************)
\* the projection as the first run of define_tmprojection leaves it
NZTMProjection == define_tmprojection(ZeroProjection, NZTMArgs)

\* some call of define_tmprojection on nztm_projection has returned
Constructed == \E t \in Threads : definer[t] > 0 /\ pc[t] # "define"

\* C1: over calls that do not overlap, define_tmprojection is entered once,
\* by the first call and by no later one, and is entered before any call
\* completes.
C1_ConstructedOnce ==
    /\ defines <= 1
    /\ \A t \in Threads : definer[t] <= 1
    /\ (\E t \in Threads : ncalls[t] > 0 \/ pc[t] \in {"read", "loopdown", "loopup", "compute"})
          => defines = 1

C1_Witness == ncalls[1] >= 2 /\ defines = 1 /\ definer[1] = 1

\* the fields of *tm thread t has read so far in its call
ReadSoFar(t) ==
    IF pc[t] = "compute" THEN {ReadOrder(op[t])[i] : i \in 1..Len(ReadOrder(op[t]))}
    ELSE IF pc[t] \in {"read", "loopdown", "loopup"}
    THEN {ReadOrder(op[t])[i] : i \in 1..(k[t] - 1)}
    ELSE {}

\* C2: whatever the interleaving of unsynchronised calls, every field a
\* conversion has read has its final constructed value.
C2_ReadsComplete ==
    \A t \in Threads : \A fld \in ReadSoFar(t) : view[t][fld] = NZTMProjection[fld]

\* C3: once define_tmprojection has returned, running it again on
\* nztm_projection changes no field.
C3_IdempotentInit == [][Constructed => nztm_projection' = nztm_projection]_vars

C3_Witness ==
    \E t, u \in Threads :
        /\ definer[u] > 0 /\ pc[u] \in {"read", "compute", "idle"}
        /\ pc[t] = "setflag"
        /\ nztm_projection = NZTMProjection

\* wraps of the longitude compared
Wraps == 2

\* C4: geod_tm returns the same easting and northing for lon and for
\* lon + 2*pi*j.
C4_WrapSymmetric ==
    res.fn = "geod_tm" =>
        \A j \in (0 - Wraps)..Wraps :
            geod_tm(tm, res.ln + j * TWOPI, res.lt) = [ce |-> res.ce, cn |-> res.cn]

\* C5: at latitude = orglat and longitude = the central meridian geod_tm
\* returns the false easting and the false northing.
C5_FixedPoint ==
    (res.fn = "geod_tm" /\ res.lt = tm.orglat /\ res.ln = tm.meridian)
        => (res.ce = tm.falsee /\ res.cn = tm.falsen)

C5_Witness ==
    /\ res.fn = "geod_tm" /\ res.lt = tm.orglat /\ res.ln = tm.meridian
    /\ tm.orglat # 0 /\ tm.om # 0 /\ tm.utom # Lit(1) /\ tm.scalef # Lit(1)
    /\ res.cn = tm.falsen /\ tm.falsen # 0

\* C7: the work of a call does not depend on its input: geod_tm executes its
\* loop bodies as often for any longitude as for the central meridian, that
\* is, never.
C7_FixedWork == \A t \in Threads : iters[t] = 0

\* C8: nztm_geod stores in lt and ln what tm_geod computes for easting e and
\* northing n; geod_nztm stores in n and e what geod_tm computes for lt and ln.
C8_ParameterOrder ==
    \A t \in Threads :
        (pc[t] = "idle" /\ ncalls[t] > 0) =>
            IF op[t] = "nztm_geod"
            THEN /\ c[t].lt = tm_geod(nztm_projection, c[t].e, c[t].n).lt
                 /\ c[t].ln = tm_geod(nztm_projection, c[t].e, c[t].n).ln
            ELSE /\ c[t].n = geod_tm(nztm_projection, c[t].ln, c[t].lt).cn
                 /\ c[t].e = geod_tm(nztm_projection, c[t].ln, c[t].lt).ce

C8_Witness ==
    /\ pc[1] = "idle" /\ ncalls[1] = 2 /\ op[1] = "nztm_geod"
    /\ c[1].e # c[1].n /\ c[1].lt # c[1].ln /\ c[1].lt # NaN /\ c[1].lt # 0

\* C9: once initiallized is 1, no step of a call changes nztm_projection or
\* the flag.
C9_ImmutableAfterInit ==
    [][initiallized = 1 =>
          (nztm_projection' = nztm_projection /\ initiallized' = 1)]_vars

C9_Witness ==
    /\ initiallized = 1 /\ ncalls[1] >= 1 /\ pc[1] = "compute"
    /\ op[1] = "geod_nztm" /\ iters[1] > 0

\* C10: after the two loops dlon is in (-PI, PI] and differs from ln - cm by
\* a multiple of 2*PI.
C10_HalfOpen ==
    res.fn = "geod_tm" =>
        /\ 0 - PI < res.dlon
        /\ res.dlon <= PI
        /\ (res.dlon - (res.ln - tm.meridian)) % TWOPI = 0

====
